---- MODULE Spec2Model ----
(***************************************************************************)
(* RestartSupervisor (manager/orchestrator/restart.go): the restart        *)
(* decision, the restart-history ledger, the delay registry and the        *)
(* per-replacement delay loops, together with the part of the store they   *)
(* use (tasks, one node, the exclusive update transaction, watch events).  *)
(***************************************************************************)
EXTENDS Integers, Sequences, FiniteSets, TLC

\* ------------------------------------------------------------------ bounds
NumProcs == 2        \* concurrent callers of the supervisor
MaxTasks == 4        \* task ids the store ever hands out
MaxHandles == 2      \* delayedStart handles ever created
MaxClock == 2        \* largest reading of time.Now()
MaxAttemptsBound == 2  \* largest Restart.MaxAttempts a caller passes
MaxWindow == 2       \* largest Restart.Window a caller passes

Procs == 1..NumProcs
TaskIds == 1..MaxTasks
Handles == 1..MaxHandles

\* --------------------------------------------------------- program values
NoTask == [absent |-> TRUE]
NoNode == [absent |-> TRUE]
NoHandle == 0
NoOwner == 0

Services == {"s1", "s2", "s3"}
NodeId == "n1"

\* isReplicatedService / isGlobalService: the mode of a service is fixed.
ServiceMode(s) ==
    CASE s = "s1" -> "REPLICATED"
      [] s = "s2" -> "GLOBAL"
      [] OTHER -> "UNSUPPORTED"

isReplicatedService(s) == ServiceMode(s) = "REPLICATED"
isGlobalService(s) == ServiceMode(s) = "GLOBAL"

\* api.TaskState order: ... < READY < RUNNING < SHUTDOWN < ... < FAILED
TaskStateRank(st) ==
    CASE st = "NEW" -> 0
      [] st = "READY" -> 1
      [] st = "RUNNING" -> 2
      [] st = "SHUTDOWN" -> 3
      [] st = "FAILED" -> 4

Conditions == {"ANY", "ON_FAILURE", "NONE"}
TerminalStates == {"COMPLETED", "FAILED"}

\* service.Spec.Restart as the caller passes it (hasRestart = FALSE: nil).
NoRestart ==
    [hasRestart |-> FALSE, condition |-> "ANY", MaxAttempts |-> 0, Window |-> 0,
     Delay |-> 0]
RestartSpecs ==
    {NoRestart} \cup
    [hasRestart : {TRUE}, condition : Conditions,
     MaxAttempts : 0..MaxAttemptsBound, Window : {0, MaxWindow}, Delay : {0, 1}]

\* restartCondition(service): RestartOnAny when the service has no policy.
restartCondition(spec) == IF spec.hasRestart THEN spec.condition ELSE "ANY"

VARIABLES
    tasks,             \* store: task id -> task record or NoTask
    nextTask,          \* next task id the store hands out
    node,              \* store: the record of node n1, or NoNode
    storeOwner,        \* the caller inside store.Update, or NoOwner
    delays,            \* r.delays: task id -> handle or NoHandle
    history,           \* r.history: instanceTuple -> instanceRestartInfo
    historyByService,  \* r.historyByService: service id -> set of tuples
    loops,             \* the delay-loop goroutines, by handle
    nextHandle,        \* next handle DelayStart makes
    pc,                \* each caller's position
    call,              \* each caller's current call: arguments, locals, result
                       \* (pruned: its shouldRestart changed the ledger)
    clock,             \* time.Now()
    created            \* replacement tasks created per tuple (bookkeeping)

vars == <<tasks, nextTask, node, storeOwner, delays, history, historyByService,
          loops, nextHandle, pc, call, clock, created>>

\* ------------------------------------------------------------------ ledger
EmptyInfo == [totalRestarts |-> 0, restartedInstances |-> <<>>]

\* The key shouldRestart looks up (restart.go:123-132).
lookupTuple(t) ==
    [instance |-> t.instance, serviceID |-> t.serviceID,
     nodeID |-> IF isGlobalService(t.serviceID) THEN t.nodeID ELSE ""]

\* The key recordRestartHistory writes (restart.go:177-181).
recordTuple(restartTask) ==
    [instance |-> restartTask.instance, serviceID |-> restartTask.serviceID,
     nodeID |-> restartTask.nodeID]

\* The scan that also removes the first event it should keep.
RECURSIVE pruneFrontAndOneMore(_, _)
pruneFrontAndOneMore(evs, lookback) ==
    IF evs = <<>> THEN <<>>
    ELSE IF Head(evs) > lookback THEN Tail(evs)
    ELSE pruneFrontAndOneMore(Tail(evs), lookback)

\* The scan with the comparison of line 153 weakened: an event exactly at
\* lookback is kept.
RECURSIVE pruneFrontKeepsBoundary(_, _)
pruneFrontKeepsBoundary(evs, lookback) ==
    IF evs = <<>> THEN <<>>
    ELSE IF Head(evs) >= lookback THEN evs
    ELSE pruneFrontKeepsBoundary(Tail(evs), lookback)

\* The front-to-back scan of restartedInstances: remove every element whose
\* timestamp is not after lookback, stop at the first one that is.
RECURSIVE pruneFront(_, _)
pruneFront(evs, lookback) ==
    IF evs = <<>> THEN <<>>
    ELSE IF Head(evs) > lookback THEN evs
    ELSE pruneFront(Tail(evs), lookback)

\* shouldRestart that counts the restart it allows (the increment of line
\* 190 made before the replacement exists).
shouldRestartCountsEarly(hist, t, terminal, spec, now) ==
    LET condition == restartCondition(spec)
        tuple == lookupTuple(t)
    IN  IF condition # "ANY" /\ (condition # "ON_FAILURE" \/ terminal = "COMPLETED")
        THEN [ok |-> FALSE, history |-> hist]
        ELSE IF ~spec.hasRestart \/ spec.MaxAttempts = 0
        THEN [ok |-> TRUE, history |-> hist]
        ELSE IF tuple \notin DOMAIN hist
        THEN [ok |-> TRUE, history |-> hist]
        ELSE IF hist[tuple].totalRestarts < spec.MaxAttempts
        THEN [ok |-> TRUE,
              history |-> [hist EXCEPT ![tuple].totalRestarts = @ + 1]]
        ELSE [ok |-> FALSE, history |-> hist]

\* shouldRestart with the comparison of line 143 made inclusive: the lifetime
\* bound admits one restart too many.
shouldRestartLifetimeInclusive(hist, t, terminal, spec, now) ==
    LET condition == restartCondition(spec)
        tuple == lookupTuple(t)
    IN  IF condition # "ANY" /\ (condition # "ON_FAILURE" \/ terminal = "COMPLETED")
        THEN [ok |-> FALSE, history |-> hist]
        ELSE IF ~spec.hasRestart \/ spec.MaxAttempts = 0
        THEN [ok |-> TRUE, history |-> hist]
        ELSE IF tuple \notin DOMAIN hist
        THEN [ok |-> TRUE, history |-> hist]
        ELSE IF spec.Window = 0
        THEN [ok |-> hist[tuple].totalRestarts <= spec.MaxAttempts, history |-> hist]
        ELSE IF hist[tuple].restartedInstances = <<>>
        THEN [ok |-> TRUE, history |-> hist]
        ELSE LET kept == pruneFront(hist[tuple].restartedInstances, now - spec.Window)
             IN  [ok |-> Len(kept) < spec.MaxAttempts,
                  history |-> [hist EXCEPT ![tuple].restartedInstances = kept]]

\* shouldRestart with the comparison of line 168 made inclusive: the window
\* bound admits one restart too many.
shouldRestartWindowInclusive(hist, t, terminal, spec, now) ==
    LET condition == restartCondition(spec)
        tuple == lookupTuple(t)
    IN  IF condition # "ANY" /\ (condition # "ON_FAILURE" \/ terminal = "COMPLETED")
        THEN [ok |-> FALSE, history |-> hist]
        ELSE IF ~spec.hasRestart \/ spec.MaxAttempts = 0
        THEN [ok |-> TRUE, history |-> hist]
        ELSE IF tuple \notin DOMAIN hist
        THEN [ok |-> TRUE, history |-> hist]
        ELSE IF spec.Window = 0
        THEN [ok |-> hist[tuple].totalRestarts < spec.MaxAttempts, history |-> hist]
        ELSE IF hist[tuple].restartedInstances = <<>>
        THEN [ok |-> TRUE, history |-> hist]
        ELSE LET kept == pruneFront(hist[tuple].restartedInstances, now - spec.Window)
             IN  [ok |-> Len(kept) <= spec.MaxAttempts,
                  history |-> [hist EXCEPT ![tuple].restartedInstances = kept]]

\* shouldRestart with the terminal-state test of line 115 left out: a task
\* that completed is restarted under ON_FAILURE.
shouldRestartIgnoresTerminal(hist, t, terminal, spec, now) ==
    LET condition == restartCondition(spec)
        tuple == lookupTuple(t)
    IN  IF condition # "ANY" /\ condition # "ON_FAILURE"
        THEN [ok |-> FALSE, history |-> hist]
        ELSE IF ~spec.hasRestart \/ spec.MaxAttempts = 0
        THEN [ok |-> TRUE, history |-> hist]
        ELSE IF tuple \notin DOMAIN hist
        THEN [ok |-> TRUE, history |-> hist]
        ELSE IF spec.Window = 0
        THEN [ok |-> hist[tuple].totalRestarts < spec.MaxAttempts, history |-> hist]
        ELSE IF hist[tuple].restartedInstances = <<>>
        THEN [ok |-> TRUE, history |-> hist]
        ELSE LET kept == pruneFront(hist[tuple].restartedInstances, now - spec.Window)
             IN  [ok |-> Len(kept) < spec.MaxAttempts,
                  history |-> [hist EXCEPT ![tuple].restartedInstances = kept]]

\* shouldRestart: the answer and the ledger it leaves (nil list = <<>>).
shouldRestart(hist, t, terminal, spec, now) ==
    LET condition == restartCondition(spec)
        tuple == lookupTuple(t)
    IN  IF condition # "ANY" /\ (condition # "ON_FAILURE" \/ terminal = "COMPLETED")
        THEN [ok |-> FALSE, history |-> hist]
        ELSE IF ~spec.hasRestart \/ spec.MaxAttempts = 0
        THEN [ok |-> TRUE, history |-> hist]
        ELSE IF tuple \notin DOMAIN hist
        THEN [ok |-> TRUE, history |-> hist]
        ELSE IF spec.Window = 0
        THEN [ok |-> hist[tuple].totalRestarts < spec.MaxAttempts, history |-> hist]
        ELSE IF hist[tuple].restartedInstances = <<>>
        THEN [ok |-> TRUE, history |-> hist]
        ELSE LET kept == pruneFront(hist[tuple].restartedInstances, now - spec.Window)
             IN  [ok |-> Len(kept) < spec.MaxAttempts,
                  history |-> [hist EXCEPT ![tuple].restartedInstances = kept]]

\* recordRestartHistory without the increment of line 190.
recordRestartHistoryNoCount(hist, byService, restartTask, spec, now) ==
    IF ~spec.hasRestart \/ spec.MaxAttempts = 0
    THEN [history |-> hist, historyByService |-> byService]
    ELSE LET tuple == recordTuple(restartTask)
             old == IF tuple \in DOMAIN hist THEN hist[tuple] ELSE EmptyInfo
             info == [totalRestarts |-> old.totalRestarts,
                      restartedInstances |->
                          IF spec.Window # 0
                          THEN Append(old.restartedInstances, now)
                          ELSE old.restartedInstances]
             sid == restartTask.serviceID
             oldSet == IF sid \in DOMAIN byService THEN byService[sid] ELSE {}
         IN  [history |-> [x \in DOMAIN hist \cup {tuple} |->
                              IF x = tuple THEN info ELSE hist[x]],
              historyByService |-> [x \in DOMAIN byService \cup {sid} |->
                              IF x = sid THEN oldSet \cup {tuple} ELSE byService[x]]]

\* recordRestartHistory: the ledger and the by-service index it leaves.
recordRestartHistory(hist, byService, restartTask, spec, now) ==
    IF ~spec.hasRestart \/ spec.MaxAttempts = 0
    THEN [history |-> hist, historyByService |-> byService]
    ELSE LET tuple == recordTuple(restartTask)
             old == IF tuple \in DOMAIN hist THEN hist[tuple] ELSE EmptyInfo
             info == [totalRestarts |-> old.totalRestarts + 1,
                      restartedInstances |->
                          IF spec.Window # 0
                          THEN Append(old.restartedInstances, now)
                          ELSE old.restartedInstances]
             sid == restartTask.serviceID
             oldSet == IF sid \in DOMAIN byService THEN byService[sid] ELSE {}
         IN  [history |-> [x \in DOMAIN hist \cup {tuple} |->
                              IF x = tuple THEN info ELSE hist[x]],
              historyByService |-> [x \in DOMAIN byService \cup {sid} |->
                              IF x = sid THEN oldSet \cup {tuple} ELSE byService[x]]]

\* ClearServiceHistory without the loop of lines 366-368: only the index
\* entry is deleted.
clearServiceHistoryIndexOnly(hist, byService, serviceID) ==
    IF serviceID \notin DOMAIN byService
    THEN [history |-> hist, historyByService |-> byService]
    ELSE [history |-> hist,
          historyByService |->
              [x \in DOMAIN byService \ {serviceID} |-> byService[x]]]

\* ClearServiceHistory: the ledger and the index it leaves.
clearServiceHistory(hist, byService, serviceID) ==
    IF serviceID \notin DOMAIN byService
    THEN [history |-> hist, historyByService |-> byService]
    ELSE [history |-> [x \in DOMAIN hist \ byService[serviceID] |-> hist[x]],
          historyByService |->
              [x \in DOMAIN byService \ {serviceID} |-> byService[x]]]

\* ------------------------------------------------------------------- store
\* newTask(service, instance): a task from the service's template.
newTask(serviceID, instance) ==
    [serviceID |-> serviceID, instance |-> instance, nodeID |-> "",
     desired |-> "NEW", state |-> "NEW"]

\* StartNow without the desired-state test of line 319.
StartNowUnguarded(tks, taskID, fail) ==
    IF tks[taskID] = NoTask THEN tks
    ELSE IF fail THEN tks
    ELSE [tks EXCEPT ![taskID].desired = "RUNNING"]

\* StartNow: the tasks the transaction leaves (fail: store.UpdateTask errs).
StartNow(tks, taskID, fail) ==
    IF tks[taskID] = NoTask THEN tks
    ELSE IF TaskStateRank(tks[taskID].desired) > TaskStateRank("READY") THEN tks
    ELSE IF fail THEN tks
    ELSE [tks EXCEPT ![taskID].desired = "RUNNING"]

\* Deliver the events of a committed transaction: every open subscription
\* (state.Watch) whose filters match gets an event on its channel.
taskEventMatches(l, tks, taskID) ==
    /\ l.watch # "nil"
    /\ l.old = taskID
    /\ tks[taskID] # NoTask
    /\ TaskStateRank(tks[taskID].state) > TaskStateRank("RUNNING")

nodeEventMatches(l, nodeID) ==
    /\ l.watch # "nil"
    /\ l.oldNode = nodeID

\* (cancelLoopFlagOnly: a cancel that closes ctx.Done() but wakes nobody.)
\* A goroutine blocked in the quiescence select (pc "parked": no case was
\* ready when it entered) resumes with the case of the first channel that
\* becomes ready: an event sends it on to the commit, ctx.Done() to the
\* deferred teardown.
eventLoop(l) ==
    [l EXCEPT !.watch = "event",
              !.pc = IF l.pc = "parked" THEN "commit" ELSE l.pc]

cancelLoopFlagOnly(l) == [l EXCEPT !.cancelled = TRUE]

cancelLoop(l) ==
    [l EXCEPT !.cancelled = TRUE,
              !.pc = IF l.pc = "parked" THEN "teardown" ELSE l.pc]

\* deliverTask for a subscription that only exists while its loop is in the
\* quiescence select: an event during the delay is lost.
deliverTaskWaitingOnly(lps, tks, taskID) ==
    [h \in Handles |->
        IF taskEventMatches(lps[h], tks, taskID) /\ lps[h].pc \in {"wait", "parked"}
        THEN eventLoop(lps[h]) ELSE lps[h]]

deliverTask(lps, tks, taskID) ==
    [h \in Handles |->
        IF taskEventMatches(lps[h], tks, taskID)
        THEN eventLoop(lps[h]) ELSE lps[h]]

deliverNode(lps, nodeID) ==
    [h \in Handles |->
        IF nodeEventMatches(lps[h], nodeID)
        THEN eventLoop(lps[h]) ELSE lps[h]]

\* ----------------------------------------------------------------- callers
NoLoop ==
    [id |-> 0, old |-> 0, oldNode |-> "", pc |-> "none", cancelled |-> FALSE,
     done |-> FALSE, waitStop |-> FALSE, watch |-> "nil"]

NoCall ==
    [op |-> "none", id |-> 0, spec |-> NoRestart, oldDesired |-> "NEW",
     newId |-> 0, delay |-> 0, waitStop |-> FALSE, old |-> 0, h |-> NoHandle,
     ok |-> "na", res |-> "none", snap |-> {}, svc |-> "", had |-> FALSE,
     tx |-> FALSE, pruned |-> FALSE]

InitTasks ==
    [i \in TaskIds |->
        CASE i = 1 -> [serviceID |-> "s1", instance |-> 1, nodeID |-> NodeId,
                       desired |-> "RUNNING", state |-> "RUNNING"]
          [] i = 2 -> [serviceID |-> "s2", instance |-> 0, nodeID |-> NodeId,
                       desired |-> "RUNNING", state |-> "RUNNING"]
          [] OTHER -> NoTask]

Init ==
    /\ tasks = InitTasks
    /\ nextTask = 3
    /\ node = [status |-> "UP", availability |-> "ACTIVE"]
    /\ storeOwner = NoOwner
    /\ delays = [i \in TaskIds |-> NoHandle]
    /\ history = <<>>
    /\ historyByService = <<>>
    /\ loops = [h \in Handles |-> NoLoop]
    /\ nextHandle = 1
    /\ pc = [p \in Procs |-> "idle"]
    /\ call = [p \in Procs |-> NoCall]
    /\ clock = 0
    /\ created = <<>>

\* The value of one caller's variables after a step.
Goto(p, where, c) ==
    /\ pc' = [pc EXCEPT ![p] = where]
    /\ call' = [call EXCEPT ![p] = c]

\* Restart, lines 58-64, when store.UpdateTask fails: the error is returned.
\* The caller is inside store.Update: it holds the store until it returns.
RestartUpdateFails(p, id) ==
    /\ pc[p] = "idle"
    /\ storeOwner = NoOwner
    /\ tasks[id] # NoTask
    /\ storeOwner' = p
    /\ Goto(p, "ret", [NoCall EXCEPT !.op = "Restart", !.id = id, !.tx = TRUE,
                                     !.res = "err"])
    /\ UNCHANGED <<tasks, nextTask, node, delays, history, historyByService,
                   loops, nextHandle, clock, created>>

\* Restart, lines 58-80: persist SHUTDOWN, ask shouldRestart, pick the mode.
Restart(p, id, spec, terminal) ==
    /\ pc[p] = "idle"
    /\ storeOwner = NoOwner
    /\ tasks[id] # NoTask
    /\ LET t == [tasks[id] EXCEPT !.desired = "SHUTDOWN"]
           sr == shouldRestart(history, t, terminal, spec, clock)
           c == [NoCall EXCEPT !.op = "Restart", !.id = id, !.tx = TRUE,
                               !.pruned = sr.history # history]
       IN  /\ storeOwner' = p
           /\ tasks' = [tasks EXCEPT ![id] = t]
           /\ history' = sr.history
           /\ IF ~sr.ok
              THEN Goto(p, "ret", [c EXCEPT !.ok = "false", !.res = "nil",
                                            !.spec = spec])
              ELSE IF ~isReplicatedService(t.serviceID)
                      /\ ~isGlobalService(t.serviceID)
              THEN Goto(p, "ret", [c EXCEPT !.ok = "true", !.res = "nil",
                                            !.spec = spec])
              ELSE Goto(p, "create",
                        [c EXCEPT !.ok = "true",
                                  !.oldDesired = tasks[id].desired,
                                  !.spec = spec])
    /\ UNCHANGED <<nextTask, node, delays, historyByService, loops, nextHandle,
                   clock, created>>

\* Restart, lines 70-107: build the replacement, compute restartDelay and
\* waitStop, create the task, record the restart, and call DelayStart.
\* store.CreateTask may fail, and does once the store has handed out MaxTasks
\* ids (or MaxHandles handles exist).
RestartCreate(p, failCreate) ==
    /\ pc[p] = "create"
    /\ failCreate \/ (nextTask <= MaxTasks /\ nextHandle <= MaxHandles)
    /\ LET c == call[p]
           t == tasks[c.id]
           restartTask ==
               IF isReplicatedService(t.serviceID)
               THEN [newTask(t.serviceID, t.instance) EXCEPT !.desired = "READY"]
               ELSE [newTask(t.serviceID, 0) EXCEPT !.nodeID = t.nodeID,
                                                    !.desired = "READY"]
           n == IF t.nodeID = NodeId THEN node ELSE NoNode
           restartDelay ==
               IF c.spec.hasRestart /\ c.spec.Delay # 0
                  /\ (n = NoNode \/ n.availability # "DRAIN")
               THEN c.spec.Delay ELSE 0
           waitStop ==
               ~((n # NoNode /\ n.status = "DOWN")
                 \/ TaskStateRank(t.state) > TaskStateRank("RUNNING"))
           rec == recordRestartHistory(history, historyByService, restartTask,
                                       c.spec, clock)
           tuple == recordTuple(restartTask)
       IN  IF failCreate
           THEN /\ Goto(p, "ret", [c EXCEPT !.res = "err", !.spec = NoRestart])
                /\ UNCHANGED <<tasks, nextTask, history, historyByService, created>>
           ELSE /\ tasks' = [tasks EXCEPT ![nextTask] = restartTask]
                /\ nextTask' = nextTask + 1
                /\ history' = rec.history
                /\ historyByService' = rec.historyByService
                /\ created' =
                       IF c.spec.hasRestart /\ c.spec.MaxAttempts # 0
                       THEN [x \in DOMAIN created \cup {tuple} |->
                               IF x = tuple
                               THEN (IF tuple \in DOMAIN created
                                     THEN created[tuple] ELSE 0) + 1
                               ELSE created[x]]
                       ELSE created
                /\ Goto(p, "ds_lock", [c EXCEPT !.newId = nextTask,
                                                !.spec = NoRestart,
                                                !.oldDesired = "NEW",
                                                !.delay = restartDelay,
                                                !.waitStop = waitStop,
                                                !.old = c.id])
    /\ UNCHANGED <<node, storeOwner, delays, loops, nextHandle, clock>>

\* DelayStart called directly (the exported method), inside store.Update.
DelayStart(p, id, delay, waitStop, old) ==
    /\ pc[p] = "idle"
    /\ storeOwner = NoOwner
    /\ nextHandle <= MaxHandles
    /\ id < nextTask
    /\ IF old = 0 THEN TRUE
       ELSE old < nextTask /\ old # id /\ tasks[old] # NoTask
    /\ storeOwner' = p
    /\ Goto(p, "ds_lock", [NoCall EXCEPT !.op = "DelayStart", !.newId = id,
                                         !.delay = delay, !.waitStop = waitStop,
                                         !.old = old, !.tx = TRUE])
    /\ UNCHANGED <<tasks, nextTask, node, delays, history, historyByService,
                   loops, nextHandle, clock, created>>

\* newLoop with the waitStop test of line 240 left out: the loop subscribes
\* whenever there is an old task.
newLoopAlwaysSubscribes(c, tks) ==
    LET subscribed == c.old # 0
    IN  [id |-> c.newId,
         old |-> IF subscribed THEN c.old ELSE 0,
         oldNode |-> IF subscribed THEN tks[c.old].nodeID ELSE "",
         pc |-> IF c.delay # 0 THEN "delay"
                ELSE IF c.waitStop THEN "wait" ELSE "commit",
         cancelled |-> FALSE, done |-> FALSE,
         waitStop |-> c.delay # 0 /\ c.waitStop,
         watch |-> IF subscribed THEN "empty" ELSE "nil"]

\* The goroutine DelayStart starts, at the first place it can wait.
newLoop(c, tks) ==
    LET subscribed == c.waitStop /\ c.old # 0
    IN  [id |-> c.newId,
         old |-> IF subscribed THEN c.old ELSE 0,
         oldNode |-> IF subscribed THEN tks[c.old].nodeID ELSE "",
         pc |-> IF c.delay # 0 THEN "delay"
                ELSE IF c.waitStop THEN "wait" ELSE "commit",
         cancelled |-> FALSE, done |-> FALSE,
         waitStop |-> c.delay # 0 /\ c.waitStop,
         watch |-> IF subscribed THEN "empty" ELSE "nil"]

\* DelayStartLock with the supersede loop left out: the new handle replaces a
\* registered one without cancelling it or waiting for it.
DelayStartLockOverwrites(p) ==
    /\ pc[p] = "ds_lock"
    /\ LET c == call[p]
       IN  /\ delays' = [delays EXCEPT ![c.newId] = nextHandle]
           /\ loops' = [loops EXCEPT ![nextHandle] = newLoop(c, tasks)]
           /\ nextHandle' = nextHandle + 1
           /\ Goto(p, "ret", [c EXCEPT !.h = nextHandle, !.res = "nil",
                                       !.delay = 0, !.waitStop = FALSE,
                                       !.old = 0])
    /\ UNCHANGED <<tasks, nextTask, node, storeOwner, history, historyByService,
                   clock, created>>

\* DelayStart, lines 220-260: one pass of the loop under r.mu. A registered
\* handle is cancelled and waited for; otherwise the new handle is installed,
\* the watch is opened and the goroutine started.
DelayStartLock(p) ==
    /\ pc[p] = "ds_lock"
    /\ LET c == call[p]
           oldDelay == delays[c.newId]
       IN  IF oldDelay # NoHandle
           THEN /\ loops' = [loops EXCEPT ![oldDelay] = cancelLoop(loops[oldDelay])]
                /\ Goto(p, "ds_wait", [c EXCEPT !.h = oldDelay])
                /\ UNCHANGED <<delays, nextHandle>>
           ELSE /\ delays' = [delays EXCEPT ![c.newId] = nextHandle]
                /\ loops' = [loops EXCEPT ![nextHandle] = newLoop(c, tasks)]
                /\ nextHandle' = nextHandle + 1
                /\ Goto(p, "ret", [c EXCEPT !.h = nextHandle, !.res = "nil",
                                            !.delay = 0, !.waitStop = FALSE,
                                            !.old = 0])
    /\ UNCHANGED <<tasks, nextTask, node, storeOwner, history, historyByService,
                   clock, created>>

\* DelayStart, line 231: <-oldDelay.doneCh, then r.mu.Lock() again.
DelayStartWait(p) ==
    /\ pc[p] = "ds_wait"
    /\ loops[call[p].h].done
    /\ Goto(p, "ds_lock", call[p])
    /\ UNCHANGED <<tasks, nextTask, node, storeOwner, delays, history,
                   historyByService, loops, nextHandle, clock, created>>

\* StartNow called directly (the exported method), inside store.Update.
StartNowCall(p, id, fail) ==
    /\ pc[p] = "idle"
    /\ storeOwner = NoOwner
    /\ storeOwner' = p
    /\ tasks' = StartNow(tasks, id, fail)
    /\ Goto(p, "ret", [NoCall EXCEPT !.op = "StartNow", !.id = id, !.tx = TRUE,
                          !.res = IF fail /\ tasks[id] # NoTask
                                     /\ TaskStateRank(tasks[id].desired)
                                            <= TaskStateRank("READY")
                                  THEN "err" ELSE "nil"])
    /\ UNCHANGED <<nextTask, node, delays, history, historyByService, loops,
                   nextHandle, clock, created>>

\* Cancel, lines 328-334: look the handle up under r.mu.
Cancel(p, id) ==
    /\ pc[p] = "idle"
    /\ id < nextTask
    /\ IF delays[id] = NoHandle
       THEN Goto(p, "ret", [NoCall EXCEPT !.op = "Cancel", !.id = id])
       ELSE Goto(p, "cancel", [NoCall EXCEPT !.op = "Cancel", !.id = id,
                                             !.h = delays[id]])
    /\ UNCHANGED <<tasks, nextTask, node, storeOwner, delays, history,
                   historyByService, loops, nextHandle, clock, created>>

\* Cancel, line 336: delay.cancel().
CancelSignal(p) ==
    /\ pc[p] = "cancel"
    /\ loops' = [loops EXCEPT ![call[p].h] = cancelLoop(loops[call[p].h])]
    /\ Goto(p, "cancel_wait", call[p])
    /\ UNCHANGED <<tasks, nextTask, node, storeOwner, delays, history,
                   historyByService, nextHandle, clock, created>>

\* Cancel, line 337: <-delay.doneCh.
CancelWait(p) ==
    /\ pc[p] = "cancel_wait"
    /\ loops[call[p].h].done
    /\ Goto(p, "ret", call[p])
    /\ UNCHANGED <<tasks, nextTask, node, storeOwner, delays, history,
                   historyByService, loops, nextHandle, clock, created>>

\* The handles registered in r.delays.
registered == {delays[i] : i \in TaskIds} \ {NoHandle}

\* CancelAll, lines 342-354: cancel every registered handle under r.mu; the
\* slice "cancelled" is never appended to, so the wait loop has nothing to
\* wait for and the method returns.
CancelAll(p) ==
    /\ pc[p] = "idle"
    /\ LET cancelled == {}
       IN  /\ loops' = [h \in Handles |->
                          IF h \in registered
                          THEN cancelLoop(loops[h]) ELSE loops[h]]
           /\ \A h \in cancelled : loops[h].done
           /\ Goto(p, "ret", [NoCall EXCEPT !.op = "CancelAll", !.snap = registered])
    /\ UNCHANGED <<tasks, nextTask, node, storeOwner, delays, history,
                   historyByService, nextHandle, clock, created>>

\* ClearServiceHistory, lines 357-371.
ClearServiceHistory(p, serviceID) ==
    /\ pc[p] = "idle"
    /\ LET r == clearServiceHistory(history, historyByService, serviceID)
       IN  /\ history' = r.history
           /\ historyByService' = r.historyByService
           /\ created' = [x \in {y \in DOMAIN created : y.serviceID # serviceID}
                             |-> created[x]]
    /\ Goto(p, "ret", [NoCall EXCEPT !.op = "ClearServiceHistory",
                                     !.svc = serviceID,
                                     !.had = serviceID \in DOMAIN historyByService])
    /\ UNCHANGED <<tasks, nextTask, node, storeOwner, delays, loops, nextHandle,
                   clock>>

\* The caller's function returns: a caller inside store.Update commits (the
\* events of its writes are delivered) or, after an error, rolls back.
Return(p) ==
    /\ pc[p] = "ret"
    /\ LET c == call[p]
       IN  /\ storeOwner' = IF c.tx THEN NoOwner ELSE storeOwner
           /\ IF c.op = "Restart" /\ c.res = "err"
              THEN /\ tasks' = [tasks EXCEPT ![c.id].desired = c.oldDesired]
                   /\ UNCHANGED loops
              ELSE IF c.op = "Restart"
              THEN /\ loops' = deliverTask(loops, tasks, c.id)
                   /\ UNCHANGED tasks
              ELSE IF c.op = "StartNow" /\ c.res = "nil"
              THEN /\ loops' = deliverTask(loops, tasks, c.id)
                   /\ UNCHANGED tasks
              ELSE UNCHANGED <<tasks, loops>>
    /\ Goto(p, "idle", NoCall)
    /\ UNCHANGED <<nextTask, node, delays, history, historyByService, nextHandle,
                   clock, created>>

\* -------------------------------------------------------------- delay loop
LoopFrame ==
    UNCHANGED <<nextTask, node, storeOwner, history, historyByService,
                nextHandle, pc, call, clock, created>>

\* After the delay select: the quiescence select if waitStop, else the commit.
afterDelay(l) == IF l.waitStop THEN "wait" ELSE "commit"

\* Line 285: case <-time.After(delay). The timer is made when the select is
\* entered, so it fires first only if ctx.Done() is not closed before it.
DelayElapsed(h) ==
    /\ loops[h].pc = "delay"
    /\ ~loops[h].cancelled
    /\ loops' = [loops EXCEPT ![h].pc = afterDelay(loops[h]),
                               ![h].waitStop = FALSE]
    /\ UNCHANGED <<tasks, delays>>
    /\ LoopFrame

\* Line 286: case <-ctx.Done() in the delay select.
DelayCancelled(h) ==
    /\ loops[h].pc = "delay"
    /\ loops[h].cancelled
    /\ loops' = [loops EXCEPT ![h].pc = "teardown"]
    /\ UNCHANGED <<tasks, delays>>
    /\ LoopFrame

\* Line 292: the goroutine enters the quiescence select with no case ready
\* and blocks.
Park(h) ==
    /\ loops[h].pc = "wait"
    /\ ~loops[h].cancelled
    /\ loops[h].watch # "event"
    /\ loops' = [loops EXCEPT ![h].pc = "parked"]
    /\ UNCHANGED <<tasks, delays>>
    /\ LoopFrame

\* Line 293: case <-watch, ready when the select is entered (a nil channel
\* never delivers).
WatchEvent(h) ==
    /\ loops[h].pc = "wait"
    /\ loops[h].watch = "event"
    /\ loops' = [loops EXCEPT ![h].pc = "commit"]
    /\ UNCHANGED <<tasks, delays>>
    /\ LoopFrame

\* Line 294: case <-oldTaskTimeout (armed only when watch # nil, line 270).
OldTaskTimeout(h) ==
    /\ loops[h].pc \in {"wait", "parked"}
    /\ loops[h].watch # "nil"
    /\ loops' = [loops EXCEPT ![h].pc = "commit"]
    /\ UNCHANGED <<tasks, delays>>
    /\ LoopFrame

\* Line 295: case <-ctx.Done(), ready when the quiescence select is entered.
WaitCancelled(h) ==
    /\ loops[h].pc = "wait"
    /\ loops[h].cancelled
    /\ loops' = [loops EXCEPT ![h].pc = "teardown"]
    /\ UNCHANGED <<tasks, delays>>
    /\ LoopFrame

\* Commit that does not wait for the store: it runs inside another caller's
\* open transaction.
CommitIgnoresStore(h, fail) ==
    /\ loops[h].pc = "commit"
    /\ tasks' = StartNow(tasks, loops[h].id, fail)
    /\ loops' = [deliverTask(loops, tasks', loops[h].id) EXCEPT ![h].pc = "teardown"]
    /\ UNCHANGED <<delays, nextTask, node, storeOwner, history,
                   historyByService, nextHandle, pc, call, clock, created>>

\* Commit in which a store failure ends the goroutine at once, without the
\* deferred teardown.
CommitFailureSkipsTeardown(h, fail) ==
    /\ loops[h].pc = "commit"
    /\ storeOwner = NoOwner
    /\ tasks' = StartNow(tasks, loops[h].id, fail)
    /\ loops' = [deliverTask(loops, tasks', loops[h].id)
                    EXCEPT ![h].pc = IF fail THEN "done" ELSE "teardown"]
    /\ UNCHANGED <<delays, nextTask, node, storeOwner, history,
                   historyByService, nextHandle, pc, call, clock, created>>

\* Lines 300-309: r.store.Update(StartNow); errors are logged and dropped.
\* store.Update waits for the store, so for any caller that holds it.
Commit(h, fail) ==
    /\ loops[h].pc = "commit"
    /\ storeOwner = NoOwner
    /\ tasks' = StartNow(tasks, loops[h].id, fail)
    /\ loops' = [deliverTask(loops, tasks', loops[h].id) EXCEPT ![h].pc = "teardown"]
    /\ UNCHANGED delays
    /\ LoopFrame

\* Teardown with the delete left out: the registry keeps the handle.
TeardownKeepsEntry(h) ==
    /\ loops[h].pc = "teardown"
    /\ loops' = [loops EXCEPT ![h].pc = "close", ![h].watch = "nil",
                               ![h].old = 0, ![h].oldNode = "",
                               ![h].waitStop = FALSE]
    /\ UNCHANGED <<tasks, delays, nextTask, node, storeOwner, history,
                   historyByService, nextHandle, pc, call, clock, created>>

\* Lines 262-265 of the deferred function: cancelWatch(), then under r.mu
\* delete(r.delays, newTaskID).
Teardown(h) ==
    /\ loops[h].pc = "teardown"
    /\ delays' = [delays EXCEPT ![loops[h].id] = NoHandle]
    /\ loops' = [loops EXCEPT ![h].pc = "close", ![h].watch = "nil",
                               ![h].old = 0, ![h].oldNode = "",
                               ![h].waitStop = FALSE]
    /\ UNCHANGED tasks
    /\ LoopFrame

\* Line 266: close(doneCh).
CloseDone(h) ==
    /\ loops[h].pc = "close"
    /\ loops' = [loops EXCEPT ![h].pc = "done", ![h].done = TRUE]
    /\ UNCHANGED <<tasks, delays>>
    /\ LoopFrame

\* ------------------------------------------------------------- environment
EnvFrame ==
    UNCHANGED <<nextTask, storeOwner, delays, history, historyByService,
                nextHandle, pc, call, created>>

\* time.Now() advances.
Tick ==
    /\ clock < MaxClock
    /\ clock' = clock + 1
    /\ UNCHANGED <<tasks, node, loops>>
    /\ EnvFrame

\* The agent reports that a task stopped: its observed state passes RUNNING.
TaskStops(id) ==
    /\ storeOwner = NoOwner
    /\ tasks[id] # NoTask
    /\ TaskStateRank(tasks[id].state) <= TaskStateRank("RUNNING")
    /\ tasks' = [tasks EXCEPT ![id].state = "FAILED"]
    /\ loops' = deliverTask(loops, tasks', id)
    /\ UNCHANGED <<node, clock>>
    /\ EnvFrame

\* The node's status or availability changes, or the node is deleted.
NodeChanges(n) ==
    /\ storeOwner = NoOwner
    /\ node # NoNode
    /\ n # node
    /\ node' = n
    /\ loops' = IF n = NoNode \/ n.status = "DOWN"
                THEN deliverNode(loops, NodeId) ELSE loops
    /\ UNCHANGED <<tasks, clock>>
    /\ EnvFrame

NodeValues ==
    {NoNode} \cup [status : {"UP", "DOWN"}, availability : {"ACTIVE", "DRAIN"}]

\* ------------------------------------------------------------------- system
\* A step of a Restart call by a caller of procs, with the restart policy
\* drawn from specs.
RestartStep(procs, specs) ==
    \/ \E p \in procs, id \in TaskIds : RestartUpdateFails(p, id)
    \/ \E p \in procs, id \in TaskIds, spec \in specs, terminal \in TerminalStates :
            Restart(p, id, spec, terminal)
    \/ \E p \in procs, failCreate \in BOOLEAN : RestartCreate(p, failCreate)

\* The steps every call that reaches DelayStart shares, and the return.
CommonStep(procs) ==
    \/ \E p \in procs : DelayStartLock(p)
    \/ \E p \in procs : Return(p)

\* A step of a Cancel call by a caller of procs.
CancelStep(procs) ==
    \/ \E p \in procs, id \in TaskIds : Cancel(p, id)
    \/ \E p \in procs : CancelSignal(p)
    \/ \E p \in procs : CancelWait(p)

RegistryStep ==
    \/ \E p \in Procs, id \in TaskIds, delay \in {0, 1}, waitStop \in BOOLEAN,
          old \in {0, 1} :
            DelayStart(p, id, delay, waitStop, old)
    \/ \E p \in Procs : DelayStartWait(p)
    \/ CancelStep(Procs)
    \/ \E p \in Procs : CancelAll(p)

StartNowStep(procs) ==
    \E p \in procs, id \in TaskIds, fail \in BOOLEAN : StartNowCall(p, id, fail)

LoopStep ==
    \/ \E h \in Handles : DelayElapsed(h)
    \/ \E h \in Handles : DelayCancelled(h)
    \/ \E h \in Handles : Park(h)
    \/ \E h \in Handles : OldTaskTimeout(h)
    \/ \E h \in Handles : WaitCancelled(h)
    \/ \E h \in Handles, fail \in BOOLEAN : Commit(h, fail)
    \/ \E h \in Handles : Teardown(h)
    \/ \E h \in Handles : CloseDone(h)

LedgerStep(procs) ==
    \/ \E p \in procs, s \in Services : ClearServiceHistory(p, s)
    \/ Tick

EnvStep ==
    \/ \E h \in Handles : WatchEvent(h)
    \/ \E id \in TaskIds : TaskStops(id)
    \/ \E n \in NodeValues : NodeChanges(n)

\* The whole program.
Next ==
    \/ RestartStep(Procs, RestartSpecs)
    \/ CommonStep(Procs)
    \/ RegistryStep
    \/ StartNowStep(Procs)
    \/ LoopStep
    \/ LedgerStep(Procs)
    \/ EnvStep

Spec == Init /\ [][Next]_vars

\* The specifications below are Spec with some of its actions and inputs
\* left out, each small enough to explore in full.

\* The delay registry and the delay loops under concurrent DelayStart,
\* Cancel and CancelAll calls.
DelayNext == CommonStep(Procs) \/ RegistryStep \/ LoopStep

DelaySpec == Init /\ [][DelayNext]_vars

\* Replacement tasks and their promotion: one caller's Restart, StartNow and
\* Cancel calls for services that do not limit restarts, and the delay loops.
UnlimitedSpecs ==
    {s \in RestartSpecs : s.condition = "ANY" /\ s.MaxAttempts = 0 /\ s.Window = 0}

StartNext ==
    \/ RestartStep({1}, UnlimitedSpecs)
    \/ CommonStep({1})
    \/ StartNowStep({1})
    \/ CancelStep({1})
    \/ LoopStep

StartSpec == Init /\ [][StartNext]_vars

\* The restart decision and the ledger: one caller's Restart calls under
\* every policy, the clock and the purge; the delay loops the calls start
\* have not yet run.
LedgerSpecs == {s \in RestartSpecs : s.Delay = 0}

LedgerNext == RestartStep({1}, LedgerSpecs) \/ CommonStep({1}) \/ LedgerStep({1})

LedgerSpec == Init /\ [][LedgerNext]_vars

\* Concurrent Restart calls under the lifetime policies (Window = 0).
LifetimeSpecs ==
    {s \in RestartSpecs : /\ s.hasRestart /\ s.condition = "ANY"
                          /\ s.MaxAttempts > 0 /\ s.Window = 0}

RaceNext == RestartStep(Procs, LifetimeSpecs) \/ CommonStep(Procs)

RaceSpec == Init /\ [][RaceNext]_vars

\* LedgerSpec for a service whose policy always limits restarts within a
\* window (MaxAttempts > 0, Window > 0).
WindowSpecs == {s \in LedgerSpecs : s.hasRestart /\ s.MaxAttempts > 0 /\ s.Window > 0}

WindowNext == RestartStep({1}, WindowSpecs) \/ CommonStep({1}) \/ LedgerStep({1})

WindowSpec == Init /\ [][WindowNext]_vars

\* Scheduling: a goroutine that can take a step eventually takes it (a timer
\* it waits on fires, a ready select returns, an unlocked r.mu is taken), and
\* a goroutine waiting for the store gets it if it is free again and again
\* (sync.Mutex hands over to a starving waiter). Callers are not obliged to
\* make new calls, only to finish the ones they began.
LoopFairness ==
    \A h \in Handles :
        /\ WF_vars(DelayElapsed(h))
        /\ WF_vars(DelayCancelled(h))
        /\ WF_vars(Park(h) \/ WatchEvent(h) \/ WaitCancelled(h))
        /\ WF_vars(OldTaskTimeout(h))
        /\ SF_vars(\E fail \in BOOLEAN : Commit(h, fail))
        /\ WF_vars(Teardown(h))
        /\ WF_vars(CloseDone(h))

CallerFairness ==
    \A p \in Procs :
        /\ WF_vars(\E failCreate \in BOOLEAN : RestartCreate(p, failCreate))
        /\ WF_vars(DelayStartLock(p))
        /\ WF_vars(DelayStartWait(p))
        /\ WF_vars(CancelSignal(p))
        /\ WF_vars(CancelWait(p))
        /\ WF_vars(Return(p))

\* DelaySpec under that scheduling.
LiveDelaySpec == DelaySpec /\ LoopFairness /\ CallerFairness

\* One caller's Restart and Cancel calls for services that do not limit
\* restarts, and the delay loops, under that scheduling.
CancelNext ==
    \/ RestartStep({1}, UnlimitedSpecs)
    \/ CommonStep({1})
    \/ CancelStep({1})
    \/ LoopStep

LiveCancelSpec == Init /\ [][CancelNext]_vars /\ LoopFairness /\ CallerFairness

\* Restart and the store around it: one caller's Restart calls on the tasks
\* the store starts with, for services that do not limit restarts, its Cancel
\* calls, the delay loops, and those tasks and the node changing in the store.
OldTasks == {i \in TaskIds : InitTasks[i] # NoTask}

WatchNext ==
    \/ \E id \in OldTasks, spec \in UnlimitedSpecs : Restart(1, id, spec, "FAILED")
    \/ \E failCreate \in BOOLEAN : RestartCreate(1, failCreate)
    \/ CommonStep({1})
    \/ CancelStep({1})
    \/ LoopStep
    \/ \E h \in Handles : WatchEvent(h)
    \/ \E id \in OldTasks : TaskStops(id)
    \/ \E n \in NodeValues : NodeChanges(n)

WatchSpec == Init /\ [][WatchNext]_vars

\* WatchSpec in which no grace timeout fires, under the scheduling above.
QuiescenceNext ==
    \/ \E id \in OldTasks, spec \in UnlimitedSpecs : Restart(1, id, spec, "FAILED")
    \/ \E failCreate \in BOOLEAN : RestartCreate(1, failCreate)
    \/ CommonStep({1})
    \/ \E h \in Handles : DelayElapsed(h)
    \/ \E h \in Handles : Park(h)
    \/ \E h \in Handles : WatchEvent(h)
    \/ \E h \in Handles, fail \in BOOLEAN : Commit(h, fail)
    \/ \E h \in Handles : Teardown(h)
    \/ \E h \in Handles : CloseDone(h)
    \/ \E id \in OldTasks : TaskStops(id)
    \/ \E n \in NodeValues : NodeChanges(n)

LiveQuiescenceSpec ==
    Init /\ [][QuiescenceNext]_vars /\ LoopFairness /\ CallerFairness

\* ------------------------------------------------------------------ claims
started(h) == loops[h].pc # "none"

\* The loop of handle h has removed its registry entry (it is past line 265).
deregistered(h) == loops[h].pc \in {"close", "done"}

\* C1 (as stated): two delay loops started for the same task id are never
\* both before their done signal: when a handle is installed for an id, every
\* loop started earlier for that id has closed doneCh.
C1_OneLoopBeforeDone ==
    \A h1, h2 \in Handles :
        (h1 < h2 /\ started(h1) /\ started(h2) /\ loops[h1].id = loops[h2].id)
            => loops[h1].done

\* C1 (amended): when a handle is installed for an id, every loop started
\* earlier for that id has left its delay, quiescence and commit phases and
\* has removed its registry entry; only its close(doneCh) may be pending.
C1_OneLoopBeforeDeregistration ==
    \A h1, h2 \in Handles :
        (h1 < h2 /\ started(h1) /\ started(h2) /\ loops[h1].id = loops[h2].id)
            => deregistered(h1)

\* A second DelayStart for an id, after it cancelled the first loop and
\* waited for its done signal, has installed its handle.
C1_Witness ==
    \E h1, h2 \in Handles :
        /\ h1 < h2 /\ started(h2) /\ loops[h1].id = loops[h2].id
        /\ loops[h1].done /\ loops[h1].cancelled
        /\ ~loops[h2].done

\* C2 (as stated): once CancelAll has returned, every handle that was
\* registered when it was called has been cancelled, has signalled done and
\* is no longer registered.
C2_CancelAllWaits ==
    \A p \in Procs :
        (pc[p] = "ret" /\ call[p].op = "CancelAll")
            => \A h \in call[p].snap :
                  loops[h].cancelled /\ loops[h].done /\ h \notin registered

\* C3: once Cancel(id) has returned, the handle it found registered for id has
\* signalled done and is not registered; for an id with no handle the call
\* returns at once and changes nothing.
C3_CancelPost ==
    \A p \in Procs :
        (pc[p] = "ret" /\ call[p].op = "Cancel" /\ call[p].h # NoHandle)
            => loops[call[p].h].done /\ call[p].h \notin registered

C3_CancelUnknown ==
    \A p \in Procs, id \in TaskIds :
        (Cancel(p, id) /\ delays[id] = NoHandle)
            => /\ pc'[p] = "ret"
               /\ UNCHANGED <<tasks, delays, loops, history, historyByService>>

C3_Cancel == []C3_CancelPost /\ [][C3_CancelUnknown]_vars

\* Cancel has returned after waiting for the handle it found.
C3_Witness ==
    \E p \in Procs :
        /\ pc[p] = "ret" /\ call[p].op = "Cancel" /\ call[p].h # NoHandle
        /\ loops[call[p].h].cancelled

\* C10: StartNow changes nothing when the task is absent or its desired state
\* is past READY, and otherwise (unless the store fails) sets it to RUNNING:
\* no step of a delay loop or of StartNow lowers a task's desired state, and
\* a replacement already moved to SHUTDOWN stays there.
startNowPost(id, fail) ==
    IF tasks[id] = NoTask
       \/ TaskStateRank(tasks[id].desired) > TaskStateRank("READY")
       \/ fail
    THEN tasks' = tasks
    ELSE /\ tasks'[id].desired = "RUNNING"
         /\ \A i \in TaskIds \ {id} : tasks'[i] = tasks[i]

C10_Step ==
    /\ \A h \in Handles, fail \in BOOLEAN :
          Commit(h, fail) => startNowPost(loops[h].id, fail)
    /\ \A p \in Procs, id \in TaskIds, fail \in BOOLEAN :
          StartNowCall(p, id, fail) => startNowPost(id, fail)
    /\ LoopStep
          => \A i \in TaskIds :
                tasks[i] # NoTask
                    => /\ tasks'[i] # NoTask
                       /\ TaskStateRank(tasks'[i].desired)
                              >= TaskStateRank(tasks[i].desired)

C10_StartNowNeverLowers == [][C10_Step]_vars

\* A replacement that a later Restart moved to SHUTDOWN while its delay loop
\* is about to commit.
C10_Witness ==
    \E h \in Handles :
        /\ loops[h].pc = "commit"
        /\ storeOwner = NoOwner
        /\ InitTasks[loops[h].id] = NoTask
        /\ tasks[loops[h].id].desired = "SHUTDOWN"

\* ------------------------------------------------------- claims: the ledger
\* The step is caller p's Restart call deciding (lines 58-80) for a task whose
\* terminal state is terminal; the call's arguments are read off call'.
RestartDecides(p, terminal) ==
    /\ pc[p] = "idle"
    /\ call'[p].op = "Restart"
    /\ call'[p].res # "err"
    /\ Restart(p, call'[p].id, call'[p].spec, terminal)

\* The restart events of evs with a timestamp strictly after lookback.
eventsAfter(evs, lookback) ==
    LET after(ts) == ts > lookback
    IN  SelectSeq(evs, after)

\* The restart condition admits a task with this terminal state.
admits(spec, terminal) ==
    \/ restartCondition(spec) = "ANY"
    \/ restartCondition(spec) = "ON_FAILURE" /\ terminal = "FAILED"

\* The restart-count test: no limit, no ledger entry, fewer than MaxAttempts
\* restarts in total (Window = 0) or within the window (Window > 0).
countTest(hist, tuple, spec, now) ==
    IF ~spec.hasRestart THEN TRUE
    ELSE IF spec.MaxAttempts = 0 THEN TRUE
    ELSE IF tuple \notin DOMAIN hist THEN TRUE
    ELSE IF spec.Window = 0 THEN hist[tuple].totalRestarts < spec.MaxAttempts
    ELSE Len(eventsAfter(hist[tuple].restartedInstances, now - spec.Window))
             < spec.MaxAttempts

\* The replacement tasks in the store tks that were created for tuple.
replacementsOf(tks, tuple) ==
    Cardinality({i \in TaskIds : /\ InitTasks[i] = NoTask
                                 /\ tks[i] # NoTask
                                 /\ recordTuple(tks[i]) = tuple})

\* C4: under concurrent Restart calls with a lifetime policy (MaxAttempts =
\* M > 0, Window = 0) and no ClearServiceHistory, whenever a Restart call
\* creates a replacement task, the store then holds at most M replacement
\* tasks of that instance tuple.
C4_Step ==
    \A p \in Procs :
        IF /\ pc[p] = "create" /\ pc'[p] = "ds_lock"
           /\ call[p].spec.hasRestart
           /\ call[p].spec.MaxAttempts > 0 /\ call[p].spec.Window = 0
        THEN replacementsOf(tasks', recordTuple(tasks'[call'[p].newId]))
                 <= call[p].spec.MaxAttempts
        ELSE TRUE

C4_LifetimeBound == [][C4_Step]_vars

\* A Restart call refused because the tuple already has M replacements.
C4_Witness ==
    \E p \in Procs :
        /\ pc[p] = "ret" /\ call[p].op = "Restart" /\ call[p].ok = "false"
        /\ call[p].spec.MaxAttempts > 0 /\ call[p].spec.Window = 0
        /\ replacementsOf(tasks, lookupTuple(tasks[call[p].id]))
               = call[p].spec.MaxAttempts

\* C5: with MaxAttempts = M > 0, Window = W > 0, a condition that admits the
\* task and a ledger entry for its tuple, shouldRestart answers true exactly
\* when fewer than M recorded events have a timestamp strictly after now - W,
\* and it leaves exactly those events in the entry.
C5_Step ==
    \A p \in Procs, terminal \in TerminalStates :
        IF RestartDecides(p, terminal)
        THEN LET spec == call'[p].spec
                 tuple == lookupTuple(tasks[call'[p].id])
             IN  (/\ spec.hasRestart /\ spec.MaxAttempts > 0 /\ spec.Window > 0
                  /\ admits(spec, terminal)
                  /\ tuple \in DOMAIN history)
                 => LET recent == eventsAfter(history[tuple].restartedInstances,
                                              clock - spec.Window)
                    IN  /\ (call'[p].ok = "true") <=> (Len(recent) < spec.MaxAttempts)
                        /\ history'[tuple].restartedInstances = recent
        ELSE TRUE

C5_SlidingWindow == [][C5_Step]_vars

\* A restart refused with MaxAttemptsBound events inside the window.
C5_Witness ==
    \E p \in Procs :
        /\ pc[p] = "ret" /\ call[p].op = "Restart" /\ call[p].ok = "false"
        /\ call[p].spec.hasRestart /\ call[p].spec.Window > 0
        /\ call[p].spec.MaxAttempts = MaxAttemptsBound
        /\ restartCondition(call[p].spec) = "ANY"
        /\ lookupTuple(tasks[call[p].id]) \in DOMAIN history
        /\ Len(history[lookupTuple(tasks[call[p].id])].restartedInstances)
               = MaxAttemptsBound

\* C6 (as stated), for a service whose policy always has MaxAttempts > 0 and
\* Window > 0: totalRestarts and the number of window events both equal the
\* number of successful Restart calls, so they equal each other.
C6_WindowEventsEqualTotal ==
    \A tuple \in DOMAIN history :
        Len(history[tuple].restartedInstances) = history[tuple].totalRestarts

\* C6 (amended): totalRestarts of a tuple is the number of replacement tasks
\* Restart created for it under a policy with MaxAttempts > 0 since its
\* service's history was last cleared, and the tuple has at most that many
\* window events.
C6_LedgerAccounting ==
    /\ DOMAIN history = DOMAIN created
    /\ \A tuple \in DOMAIN history :
          /\ history[tuple].totalRestarts = created[tuple]
          /\ Len(history[tuple].restartedInstances) <= history[tuple].totalRestarts

\* Two replacements were created for a tuple and an event has been pruned.
C6_Witness ==
    \E tuple \in DOMAIN history :
        /\ created[tuple] = 2
        /\ history[tuple].totalRestarts = 2
        /\ Len(history[tuple].restartedInstances) < 2

\* C7: shouldRestart is false under NONE whatever the ledger holds, false
\* under ON_FAILURE for a COMPLETED task, and under ANY, or ON_FAILURE for a
\* FAILED task, it is the result of the restart-count test.
C7_Step ==
    \A p \in Procs, terminal \in TerminalStates :
        IF RestartDecides(p, terminal)
        THEN LET spec == call'[p].spec
                 tuple == lookupTuple(tasks[call'[p].id])
                 condition == restartCondition(spec)
             IN  /\ condition = "NONE" => call'[p].ok = "false"
                 /\ (condition = "ON_FAILURE" /\ terminal = "COMPLETED")
                        => call'[p].ok = "false"
                 /\ admits(spec, terminal)
                        => ((call'[p].ok = "true")
                                <=> countTest(history, tuple, spec, clock))
        ELSE TRUE

C7_PolicyGate == [][C7_Step]_vars

\* A restart refused by the policy alone: the count test would allow it.
C7_Witness ==
    \E p \in Procs :
        /\ pc[p] = "ret" /\ call[p].op = "Restart" /\ call[p].ok = "false"
        /\ restartCondition(call[p].spec) \in {"NONE", "ON_FAILURE"}
        /\ lookupTuple(tasks[call[p].id]) \in DOMAIN history
        /\ countTest(history, lookupTuple(tasks[call[p].id]), call[p].spec, clock)

\* C8: ClearServiceHistory(s) leaves no ledger entry with service id s and no
\* index entry for s, leaves the entries of other services alone, and changes
\* nothing when s has no history.
C8_Step ==
    \A p \in Procs :
        IF pc[p] = "idle" /\ call'[p].op = "ClearServiceHistory"
        THEN LET s == call'[p].svc
             IN  /\ \A tuple \in DOMAIN history' : tuple.serviceID # s
                 /\ s \notin DOMAIN historyByService'
                 /\ \A tuple \in DOMAIN history :
                       tuple.serviceID # s
                           => /\ tuple \in DOMAIN history'
                              /\ history'[tuple] = history[tuple]
                 /\ \A x \in DOMAIN historyByService \ {s} :
                       /\ x \in DOMAIN historyByService'
                       /\ historyByService'[x] = historyByService[x]
                 /\ s \notin DOMAIN historyByService
                       => /\ history' = history
                          /\ historyByService' = historyByService
        ELSE TRUE

C8_ServicePurge == [][C8_Step]_vars

\* ClearServiceHistory has purged a service that had recorded restarts while
\* another service keeps its own.
C8_Witness ==
    \E p \in Procs :
        /\ pc[p] = "ret" /\ call[p].op = "ClearServiceHistory" /\ call[p].had
        /\ call[p].svc \notin DOMAIN historyByService
        /\ history # <<>>

\* What a refused Restart leaves outside the ledger: the old task marked
\* SHUTDOWN, success returned, no task created, no handle registered.
refusalFrame(p) ==
    /\ pc'[p] = "ret"
    /\ call'[p].res = "nil"
    /\ tasks' = [tasks EXCEPT ![call'[p].id].desired = "SHUTDOWN"]
    /\ nextTask' = nextTask
    /\ delays' = delays
    /\ loops' = loops
    /\ nextHandle' = nextHandle
    /\ historyByService' = historyByService

\* C9 (as stated): when shouldRestart is false, Restart returns success and,
\* apart from marking the old task SHUTDOWN, changes nothing: no task is
\* created, the ledger is unchanged, no handle is registered.
C9_RefusalStep ==
    \A p \in Procs, terminal \in TerminalStates :
        (RestartDecides(p, terminal) /\ call'[p].ok = "false")
            => (refusalFrame(p) /\ history' = history)

C9_RefusalChangesNothing == [][C9_RefusalStep]_vars

\* C9 (amended): as stated, except that the refusing shouldRestart may have
\* pruned the task's own tuple: under a policy with MaxAttempts > 0 and
\* Window > 0 that admits the task, the tuple keeps exactly its events after
\* now - Window; every total and every other tuple is unchanged.
C9_PrunedStep ==
    \A p \in Procs, terminal \in TerminalStates :
        IF RestartDecides(p, terminal) /\ call'[p].ok = "false"
        THEN LET spec == call'[p].spec
                 own == lookupTuple(tasks[call'[p].id])
                 prunes == /\ spec.hasRestart /\ spec.MaxAttempts > 0
                           /\ spec.Window > 0 /\ admits(spec, terminal)
             IN  /\ refusalFrame(p)
                 /\ DOMAIN history' = DOMAIN history
                 /\ \A tuple \in DOMAIN history :
                       /\ history'[tuple].totalRestarts
                              = history[tuple].totalRestarts
                       /\ history'[tuple].restartedInstances =
                              IF tuple = own /\ prunes
                              THEN eventsAfter(history[tuple].restartedInstances,
                                               clock - spec.Window)
                              ELSE history[tuple].restartedInstances
        ELSE TRUE

C9_RefusalOnlyPrunes == [][C9_PrunedStep]_vars

\* A Restart refused by the window bound whose tuple has lost an event.
C9_Witness ==
    \E p \in Procs :
        /\ pc[p] = "ret" /\ call[p].op = "Restart" /\ call[p].ok = "false"
        /\ call[p].res = "nil"
        /\ call[p].spec.hasRestart /\ call[p].spec.Window > 0
        /\ call[p].spec.MaxAttempts > 0
        /\ restartCondition(call[p].spec) = "ANY"
        /\ tasks[call[p].id].desired = "SHUTDOWN"
        /\ lookupTuple(tasks[call[p].id]) \in DOMAIN history
        /\ LET info == history[lookupTuple(tasks[call[p].id])]
           IN  /\ Len(info.restartedInstances) < info.totalRestarts
               /\ Len(info.restartedInstances) >= call[p].spec.MaxAttempts

\* ---------------------------------------------------- claims: the delay loop
\* Cancel has been signalled while loop h was waiting for its delay, or h is
\* in its deferred teardown.
cancelledWaiting(h) ==
    \/ loops[h].pc = "delay" /\ loops[h].cancelled
    \/ loops[h].pc = "teardown" /\ loops[h].cancelled

\* C11: a cancel signalled while the loop waits in its delay select (timer not
\* fired) or blocks in its quiescence select (no event, no timeout) sends the
\* loop to its teardown; from there it changes no task (no StartNow runs, the
\* replacement keeps its desired state) and its done signal fires.
C11_Step ==
    \A h \in Handles :
        /\ (loops[h].pc = "parked" /\ ~loops[h].cancelled /\ loops'[h].cancelled)
              => (loops'[h].pc = "teardown" /\ tasks' = tasks)
        /\ (loops[h].pc = "delay" /\ ~loops[h].cancelled /\ loops'[h].cancelled)
              => (loops'[h].pc = "delay" /\ tasks' = tasks)
        /\ (loops[h].pc = "delay" /\ loops[h].cancelled /\ loops'[h].pc # loops[h].pc)
              => (loops'[h].pc = "teardown" /\ tasks' = tasks)
        /\ (loops[h].pc = "teardown" /\ loops'[h].pc # loops[h].pc)
              => (loops'[h].pc = "close" /\ tasks' = tasks)
        /\ (loops[h].pc = "close" /\ loops'[h].pc # loops[h].pc)
              => (loops'[h].done /\ tasks' = tasks)

C11_CancelWhileWaiting ==
    /\ [][C11_Step]_vars
    /\ \A h \in Handles : cancelledWaiting(h) ~> loops[h].done

\* A loop cancelled in its delay phase has signalled done and its replacement
\* task is still READY.
C11_Witness ==
    \E h \in Handles :
        /\ loops[h].done /\ loops[h].cancelled
        /\ InitTasks[loops[h].id] = NoTask
        /\ tasks[loops[h].id].desired = "READY"
        /\ \E p \in Procs : pc[p] = "ret" /\ call[p].op = "Cancel" /\ call[p].h = h

\* C12: once cancel is signalled on a delay handle its done signal eventually
\* fires, whatever phase its loop is in; so a DelayStart or Cancel that waits
\* for a done signal inside an open store transaction returns.
C12_CancelToDone ==
    \A h \in Handles : loops[h].cancelled ~> loops[h].done

\* C13: every delay loop that is never cancelled eventually signals done,
\* whatever delay, waitStop and oldTask it was started with.
C13_LoopTerminates ==
    \A h \in Handles : started(h) ~> (loops[h].done \/ loops[h].cancelled)

\* C14: every way out of the loop runs the deferred teardown in order: the
\* loop leaves the commit, whether the store failed or not, and either select
\* on cancellation only into the teardown; the teardown closes the
\* subscription and removes the registry entry of the loop's task id before
\* done is signalled; and a loop in its teardown does signal done.
C14_Step ==
    \A h \in Handles :
        /\ (loops[h].pc \in {"delay", "wait", "parked", "commit"}
            /\ loops'[h].pc \notin {"delay", "wait", "parked", "commit"})
              => loops'[h].pc = "teardown"
        /\ (loops[h].pc = "teardown" /\ loops'[h].pc # "teardown")
              => /\ loops'[h].pc = "close"
                 /\ loops'[h].watch = "nil"
                 /\ delays'[loops[h].id] = NoHandle
                 /\ ~loops'[h].done
        /\ (~loops[h].done /\ loops'[h].done)
              => /\ loops[h].pc = "close"
                 /\ loops'[h].watch = "nil"
                 /\ delays'[loops[h].id] # h

C14_TeardownOnEveryExit ==
    /\ [][C14_Step]_vars
    /\ \A h \in Handles : loops[h].pc = "teardown" ~> loops[h].done

\* A loop that was never cancelled has run its commit and its teardown.
C14_Witness ==
    \E h \in Handles :
        /\ loops[h].done /\ ~loops[h].cancelled
        /\ loops[h].watch = "nil"
        /\ delays[loops[h].id] = NoHandle

\* C20: a registered handle belongs to a loop started for that task id that
\* has not yet removed its entry (so has not signalled done), and the entry a
\* teardown deletes is the handle of the loop that runs it.
C20_RegisteredIsLive ==
    \A i \in TaskIds :
        delays[i] # NoHandle
            => /\ started(delays[i])
               /\ loops[delays[i]].id = i
               /\ ~deregistered(delays[i])
               /\ ~loops[delays[i]].done

C20_Step ==
    \A h \in Handles :
        (loops[h].pc = "teardown" /\ loops'[h].pc = "close")
            => /\ delays[loops[h].id] = h
               /\ \A i \in TaskIds \ {loops[h].id} : delays'[i] = delays[i]

C20_TeardownRemovesOwnHandle == []C20_RegisteredIsLive /\ [][C20_Step]_vars

\* A second handle is registered for a task id whose first loop has finished.
C20_Witness ==
    \E h1, h2 \in Handles :
        /\ h1 # h2
        /\ loops[h1].done /\ loops[h1].id = loops[h2].id
        /\ delays[loops[h2].id] = h2
        /\ loops[h2].pc = "teardown"

\* ------------------------------------------- claims: Restart and the store
\* Loop h waits (for its delay or for quiescence) with a subscription open.
waitingSubscribed(h) ==
    loops[h].watch # "nil" /\ loops[h].pc \in {"delay", "wait", "parked"}

\* The old task of loop h is past RUNNING, or its node is DOWN.
oldTaskQuiescent(h) ==
    \/ TaskStateRank(tasks[loops[h].old].state) > TaskStateRank("RUNNING")
    \/ loops[h].oldNode = NodeId /\ node # NoNode /\ node.status = "DOWN"

\* C15: no event for the old task is missed. While a subscribed loop waits,
\* if its old task is past RUNNING or its node is DOWN the event is in the
\* loop's channel, also when it came during the delay; a node deletion
\* reaches every subscribed loop; a loop blocked in the quiescence select has
\* no event pending; and with an event the loop goes on to the commit though
\* no grace timeout ever fires.
C15_EventHeld ==
    \A h \in Handles :
        /\ (waitingSubscribed(h) /\ oldTaskQuiescent(h)) => loops[h].watch = "event"
        /\ loops[h].pc = "parked" => loops[h].watch # "event"

C15_Step ==
    \A h \in Handles :
        (waitingSubscribed(h) /\ loops[h].oldNode = NodeId
         /\ node # NoNode /\ node' = NoNode)
            => loops'[h].watch = "event"

C15_NoMissedEvent ==
    /\ []C15_EventHeld
    /\ [][C15_Step]_vars
    /\ \A h \in Handles :
          (loops[h].watch = "event" /\ loops[h].pc \in {"delay", "wait"})
              ~> (loops[h].pc \in {"commit", "teardown", "close", "done"})

\* The old task stopped while the loop was still in its delay, and the event
\* waits in the channel.
C15_Witness ==
    \E h \in Handles :
        /\ loops[h].pc = "delay"
        /\ loops[h].watch = "event"
        /\ TaskStateRank(tasks[loops[h].old].state) > TaskStateRank("RUNNING")

\* C16: when a delay loop's StartNow transaction runs, the Restart call that
\* created its replacement task has returned and its transaction is over,
\* and the task is in the store; when that Restart returns the task is READY
\* and the loop has not committed.
C16_Step ==
    /\ \A h \in Handles :
          (loops[h].pc = "commit" /\ loops'[h].pc # "commit")
              => /\ storeOwner = NoOwner
                 /\ \A p \in Procs : ~(call[p].op = "Restart" /\ call[p].h = h)
                 /\ tasks[loops[h].id] # NoTask
    /\ \A p \in Procs :
          (pc[p] = "ret" /\ pc'[p] = "idle" /\ call[p].op = "Restart"
           /\ call[p].h # NoHandle)
              => /\ tasks'[call[p].newId] # NoTask
                 /\ tasks'[call[p].newId].desired = "READY"
                 /\ loops[call[p].h].pc \in {"delay", "wait", "parked", "commit"}

C16_CreateBeforePromote == [][C16_Step]_vars

\* Restart has installed a loop with no delay and nothing to wait for, ready
\* to commit, and has not yet returned.
C16_Witness ==
    \E p \in Procs :
        /\ pc[p] = "ret" /\ call[p].op = "Restart" /\ call[p].h # NoHandle
        /\ storeOwner = p
        /\ loops[call[p].h].pc = "commit"
        /\ tasks[call[p].newId].desired = "READY"

\* The old task's node is known and DOWN, or the old task is past RUNNING.
nothingToWaitFor(t) ==
    \/ t.nodeID = NodeId /\ node # NoNode /\ node.status = "DOWN"
    \/ TaskStateRank(t.state) > TaskStateRank("RUNNING")

\* C17: Restart sets waitStop to false exactly when the old task's node is
\* known and DOWN or the old task is past RUNNING, and keeps the restart delay
\* unless the node is known and DRAIN. Without waitStop the loop has no
\* subscription and goes from its delay straight to the commit; with it the
\* loop subscribes to the old task and waits for quiescence.
C17_Step ==
    /\ \A p \in Procs :
          (pc[p] = "create" /\ pc'[p] = "ds_lock")
              => LET t == tasks[call[p].id]
                     drained == t.nodeID = NodeId /\ node # NoNode
                                /\ node.availability = "DRAIN"
                 IN  /\ call'[p].waitStop = ~nothingToWaitFor(t)
                     /\ call'[p].delay =
                            IF call[p].spec.hasRestart /\ ~drained
                            THEN call[p].spec.Delay ELSE 0
    /\ \A p \in Procs :
          (pc[p] = "ds_lock" /\ pc'[p] = "ret" /\ call[p].op = "Restart")
              => LET l == loops'[call'[p].h]
                     t == tasks[call[p].old]
                 IN  /\ (l.pc = "delay") <=> (call[p].delay # 0)
                     /\ IF nothingToWaitFor(t)
                        THEN /\ l.watch = "nil"
                             /\ l.pc \in {"delay", "commit"}
                             /\ ~l.waitStop
                        ELSE /\ l.watch = "empty"
                             /\ l.old = call[p].old
                             /\ l.pc = "wait" \/ (l.pc = "delay" /\ l.waitStop)
    /\ \A h \in Handles :
          /\ (loops[h].pc = "delay" /\ loops'[h].pc \notin {"delay", "teardown"})
                => loops'[h].pc = IF loops[h].watch = "nil" THEN "commit" ELSE "wait"
          /\ loops[h].pc \in {"wait", "parked"} => loops[h].watch # "nil"

C17_NoWaitOnDownNode == [][C17_Step]_vars

\* A restart on a DOWN node with a delay: the loop waits for the delay with
\* no subscription.
C17_Witness ==
    \E p \in Procs :
        /\ pc[p] = "ret" /\ call[p].op = "Restart" /\ call[p].h # NoHandle
        /\ node # NoNode /\ node.status = "DOWN"
        /\ tasks[call[p].id].nodeID = NodeId
        /\ TaskStateRank(tasks[call[p].id].state) <= TaskStateRank("RUNNING")
        /\ loops[call[p].h].pc = "delay"
        /\ loops[call[p].h].watch = "nil"

\* ------------------------------------------ claims: the ledger, continued
\* C18: shouldRestart called twice in a row for the same task and policy at
\* the same clock value gives the same answer both times, changes no
\* totalRestarts, and the second call leaves the ledger as the first left it.
C18_PruningIdempotent ==
    \A id \in TaskIds, spec \in LedgerSpecs, terminal \in TerminalStates :
        tasks[id] # NoTask
            => LET first == shouldRestart(history, tasks[id], terminal, spec, clock)
                   second == shouldRestart(first.history, tasks[id], terminal,
                                           spec, clock)
               IN  /\ second.ok = first.ok
                   /\ second.history = first.history
                   /\ DOMAIN first.history = DOMAIN history
                   /\ \A tuple \in DOMAIN history :
                         first.history[tuple].totalRestarts
                             = history[tuple].totalRestarts

\* A ledger from which the first call prunes an event and still has one left.
C18_Witness ==
    \E id \in TaskIds, spec \in LedgerSpecs :
        /\ tasks[id] # NoTask
        /\ lookupTuple(tasks[id]) \in DOMAIN history
        /\ LET first == shouldRestart(history, tasks[id], "FAILED", spec, clock)
               tuple == lookupTuple(tasks[id])
           IN  /\ first.history # history
               /\ first.history[tuple].restartedInstances # <<>>

\* C19 (as stated): when Restart returns an error the ledger is as it was
\* when Restart was called.
C19_FailureChangesNothing ==
    \A p \in Procs :
        (pc[p] = "ret" /\ call[p].op = "Restart" /\ call[p].res = "err")
            => ~call[p].pruned

\* The supervisor's state outside r.history is unchanged by the step.
supervisorFrame ==
    /\ historyByService' = historyByService
    /\ delays' = delays
    /\ loops' = loops
    /\ nextHandle' = nextHandle

\* C19 (amended): a Restart that returns the store's error has started no
\* loop and changed neither the registry, the index nor any totalRestarts;
\* if the error came from creating the replacement, its shouldRestart may
\* have pruned the expired events of the old task's tuple.
C19_FailureStep ==
    \A p \in Procs :
        /\ (pc[p] = "idle" /\ pc'[p] = "ret" /\ call'[p].op = "Restart"
            /\ call'[p].res = "err")
              => (supervisorFrame /\ history' = history /\ tasks' = tasks)
        /\ (pc[p] = "create" /\ pc'[p] = "ret")
              => (/\ call'[p].res = "err"
                  /\ supervisorFrame /\ history' = history /\ tasks' = tasks)
        /\ \A terminal \in TerminalStates :
              (RestartDecides(p, terminal) /\ pc'[p] = "create")
                  => LET spec == call'[p].spec
                         own == lookupTuple(tasks[call'[p].id])
                         prunes == /\ spec.hasRestart /\ spec.MaxAttempts > 0
                                   /\ spec.Window > 0 /\ own \in DOMAIN history
                     IN  /\ supervisorFrame
                         /\ DOMAIN history' = DOMAIN history
                         /\ \A tuple \in DOMAIN history :
                               /\ history'[tuple].totalRestarts
                                      = history[tuple].totalRestarts
                               /\ history'[tuple].restartedInstances =
                                      IF tuple = own /\ prunes
                                      THEN eventsAfter(
                                               history[tuple].restartedInstances,
                                               clock - spec.Window)
                                      ELSE history[tuple].restartedInstances

C19_FailureOnlyPrunes == [][C19_FailureStep]_vars

\* Restart returns the error of store.CreateTask after its shouldRestart
\* pruned the ledger.
C19_Witness ==
    \E p \in Procs :
        /\ pc[p] = "ret" /\ call[p].op = "Restart" /\ call[p].res = "err"
        /\ call[p].pruned

====
